---------------------------- MODULE Spec2Model ----------------------------
(***************************************************************************)
(* Model of the chess move engine of AgenteAjedrez (src/piezas.py and      *)
(* src/ajedrez.py): the board (tablero), the piece registry                *)
(* (GestorPiezas.piezas), the candidate generators of the six piece        *)
(* classes and the executor GestorPiezas.ejecutar_movimiento.              *)
(*                                                                         *)
(* A piece id "BP1" is the triple <<"B", "P", 1>> (colour, kind letter,    *)
(* number); the empty cell '...' is <<".", ".", 0>>.  A square in          *)
(* algebraic notation "e2" is the pair <<"e", 2>>; a position is the pair  *)
(* <<fila, col>> of matrix indices.                                        *)
(*                                                                         *)
(* Spec drives the registry as piezas.py's __main__ does (candidate moves  *)
(* applied with ejecutar_movimiento, queries, a hand-built castle),        *)
(* SpecAgente drives AgenteAjedrez.mover with move strings as ajedrez.py's *)
(* __main__ does, and SpecNotacion applies the two coordinate conversions  *)
(* of MovimientosTablero to given squares and notations.                   *)
(***************************************************************************)
EXTENDS Integers, Sequences, FiniteSets, TLC

VARIABLES
    tablero,      \* the board the driver holds: [Posiciones -> id]
    piezas,       \* GestorPiezas.piezas: id -> [movida, doble]
    ult,          \* the last operation applied (ghost)
    tabAntes,     \* the board given to the last operation (ghost)
    piezasAntes,  \* the registry before the last operation (ghost)
    reyesMovidos, \* kings relocated by an applied normal move (ghost)
    ultDoble,     \* the pawn that made a double step in the last move (ghost)
    doblesViejos, \* pawns whose double step is older than the last move (ghost)
    esc,          \* the starting position of this run
    nmov,         \* number of moves applied so far
    agente,       \* AgenteAjedrez: [color, visitados]
    agente2,      \* the second agent of the two-agent driver, with its own
                  \* registry: [color, visitados, piezas]; "None" without it
    movidas       \* ids whose record has said "moved" after some move of
                  \* the game driver (ghost)

vars == <<tablero, piezas, ult, tabAntes, piezasAntes, reyesMovidos,
          ultDoble, doblesViejos, esc, nmov, agente, agente2,
          movidas>>

-----------------------------------------------------------------------------
(* Bounds of the model *)

\* operations applied to the registry in one run
MaxMov == 2

-----------------------------------------------------------------------------
(* TipoMovimiento *)

NORMAL == "normal"
ENROQUE == "enroque"
EN_PASSANT == "en_passant"
PROMOCION == "promocion"

VACIO == <<".", ".", 0>>

Id(color, tipo, num) == <<color, tipo, num>>

Filas == 0..7
Posiciones == Filas \X Filas

-----------------------------------------------------------------------------
(* MovimientosTablero *)

COLUMNAS == <<"a", "b", "c", "d", "e", "f", "g", "h">>

\* list.index: the first index (0-based) holding the letter
ColumnaIndex(letra) ==
    (CHOOSE i \in 1..Len(COLUMNAS) :
        /\ COLUMNAS[i] = letra
        /\ \A j \in 1..(i - 1) : COLUMNAS[j] # letra) - 1

\* str.lower on the letters the inputs use
MAYUSCULAS == [l \in {"A"} |-> "a"]

lower(letra) == IF letra \in DOMAIN MAYUSCULAS THEN MAYUSCULAS[letra] ELSE letra

notacion_a_posicion(notacion) ==
    LET col == ColumnaIndex(lower(notacion[1]))
        fila == 8 - notacion[2]
    IN  <<fila, col>>

\* notacion_a_posicion with its failure: COLUMNAS.index raises ValueError
\* for a letter that is not in the list
notacion_a_posicion_o_error(notacion) ==
    IF \E i \in 1..Len(COLUMNAS) : COLUMNAS[i] = lower(notacion[1])
    THEN [error |-> FALSE, pos |-> notacion_a_posicion(notacion)]
    ELSE [error |-> TRUE]

\* the rank is not mirrored
posicion_a_notacion_sin_invertir(fila, col) == <<COLUMNAS[col + 1], fila + 1>>

posicion_a_notacion(fila, col) == <<COLUMNAS[col + 1], 8 - fila>>

dentro_tablero(fila, col) == 0 <= fila /\ fila < 8 /\ 0 <= col /\ col < 8

obtener_direccion_color(color) == IF color = "B" THEN -1 ELSE 1

obtener_fila_inicial(color) == IF color = "B" THEN 6 ELSE 1

MovimientoAjedrez(desde, hasta, tipo, info) ==
    [desde |-> desde, hasta |-> hasta, tipo |-> tipo, info |-> info]

\* info_adicional = None
Ninguna == "None"

Abs(x) == IF x < 0 THEN -x ELSE x


RECURSIVE Concat(_)
\* the lists of one loop, appended in the loop's order
Concat(listas) ==
    IF listas = <<>> THEN <<>> ELSE Head(listas) \o Concat(Tail(listas))

-----------------------------------------------------------------------------
(* Pieza and its six subclasses: the candidate sweeps.  An object of a     *)
(* piece class is given by its colour, its movida flag and, where the      *)
(* method reads self.gestor, the registry.                                 *)

TIPOS == {"P", "T", "C", "A", "Q", "R"}

\* the double step does not look at the square it passes over
Peon_obtener_hijos_salta(color, movida, pos, tab) ==
    LET f == pos[1]
        c == pos[2]
        direccion == obtener_direccion_color(color)
        fila_inicial == obtener_fila_inicial(color)
        pos_actual_not == posicion_a_notacion(f, c)
        nueva_f == f + direccion
        doble_f == f + 2 * direccion
        un_paso ==
            IF dentro_tablero(nueva_f, c) /\ tab[<<nueva_f, c>>] = VACIO
            THEN <<<<pos_actual_not, posicion_a_notacion(nueva_f, c)>>>>
            ELSE <<>>
        dos_pasos ==
            IF /\ ~movida
               /\ f = fila_inicial
               /\ dentro_tablero(doble_f, c)
               /\ tab[<<doble_f, c>>] = VACIO
            THEN <<<<pos_actual_not, posicion_a_notacion(doble_f, c)>>>>
            ELSE <<>>
        captura(dc) ==
            IF /\ dentro_tablero(nueva_f, c + dc)
               /\ tab[<<nueva_f, c + dc>>] # VACIO
               /\ tab[<<nueva_f, c + dc>>][1] # color
            THEN <<<<pos_actual_not, posicion_a_notacion(nueva_f, c + dc)>>>>
            ELSE <<>>
    IN  un_paso \o dos_pasos \o captura(-1) \o captura(1)

\* Peon.obtener_hijos: "desde hasta" strings, here <<desde, hasta>> pairs
Peon_obtener_hijos(color, movida, pos, tab) ==
    LET f == pos[1]
        c == pos[2]
        direccion == obtener_direccion_color(color)
        fila_inicial == obtener_fila_inicial(color)
        pos_actual_not == posicion_a_notacion(f, c)
        nueva_f == f + direccion
        doble_f == f + 2 * direccion
        adelante ==
            IF dentro_tablero(nueva_f, c) /\ tab[<<nueva_f, c>>] = VACIO
            THEN <<<<pos_actual_not, posicion_a_notacion(nueva_f, c)>>>> \o
                 (IF /\ ~movida
                     /\ f = fila_inicial
                     /\ dentro_tablero(doble_f, c)
                     /\ tab[<<doble_f, c>>] = VACIO
                  THEN <<<<pos_actual_not, posicion_a_notacion(doble_f, c)>>>>
                  ELSE <<>>)
            ELSE <<>>
        captura(dc) ==
            IF /\ dentro_tablero(nueva_f, c + dc)
               /\ tab[<<nueva_f, c + dc>>] # VACIO
               /\ tab[<<nueva_f, c + dc>>][1] # color
            THEN <<<<pos_actual_not, posicion_a_notacion(nueva_f, c + dc)>>>>
            ELSE <<>>
    IN  adelante \o captura(-1) \o captura(1)

PIEZAS_PROMOCION == <<"Q", "T", "A", "C">>

\* the ranks swapped between the colours
fila_en_passant_cambiada(color, f) ==
    (color = "B" /\ f = 4) \/ (color = "N" /\ f = 3)

\* "Verificar en passant": the pawn stands on its colour's en-passant rank
fila_en_passant(color, f) ==
    (color = "B" /\ f = 3) \/ (color = "N" /\ f = 4)

\* Peon.obtener_movimientos_especiales: promotion, then en passant
Peon_obtener_movimientos_especiales(color, pos, tab, pz) ==
    LET f == pos[1]
        c == pos[2]
        direccion == obtener_direccion_color(color)
        pos_actual_not == posicion_a_notacion(f, c)
        nueva_f == f + direccion
        promos(col) ==
            [i \in 1..Len(PIEZAS_PROMOCION) |->
                MovimientoAjedrez(pos_actual_not,
                                  posicion_a_notacion(nueva_f, col),
                                  PROMOCION, PIEZAS_PROMOCION[i])]
        promo_captura(dc) ==
            IF /\ dentro_tablero(nueva_f, c + dc)
               /\ tab[<<nueva_f, c + dc>>] # VACIO
               /\ tab[<<nueva_f, c + dc>>][1] # color
            THEN promos(c + dc)
            ELSE <<>>
        promocion ==
            IF /\ dentro_tablero(nueva_f, c)
               /\ \/ (color = "B" /\ nueva_f = 0)
                  \/ (color = "N" /\ nueva_f = 7)
            THEN (IF tab[<<nueva_f, c>>] = VACIO THEN promos(c) ELSE <<>>)
                 \o promo_captura(-1) \o promo_captura(1)
            ELSE <<>>
        enemigo == IF color = "N" THEN "B" ELSE "N"
        al_paso(dc) ==
            IF /\ dentro_tablero(f, c + dc)
               /\ tab[<<f, c + dc>>][1] = enemigo
               /\ tab[<<f, c + dc>>][2] = "P"
               /\ tab[<<f, c + dc>>] \in DOMAIN pz
               /\ pz[tab[<<f, c + dc>>]].doble
            THEN <<MovimientoAjedrez(pos_actual_not,
                                     posicion_a_notacion(nueva_f, c + dc),
                                     EN_PASSANT, Ninguna)>>
            ELSE <<>>
        en_passant ==
            IF fila_en_passant(color, f)
            THEN al_paso(-1) \o al_paso(1)
            ELSE <<>>
    IN  promocion \o en_passant

RECURSIVE Rayo(_, _, _, _, _, _, _, _)
\* the inner loop "for _ in range(1, 8)" of the sliding pieces, n steps left
Rayo(color, pos_actual_not, f, c, df, dc, tab, n) ==
    IF n = 0 THEN <<>>
    ELSE LET nueva_f == f + df
             nueva_c == c + dc
             mov == <<pos_actual_not, posicion_a_notacion(nueva_f, nueva_c)>>
         IN  IF ~dentro_tablero(nueva_f, nueva_c) THEN <<>>
             ELSE IF tab[<<nueva_f, nueva_c>>] = VACIO
                  THEN <<mov>> \o Rayo(color, pos_actual_not, nueva_f, nueva_c,
                                       df, dc, tab, n - 1)
                  ELSE IF tab[<<nueva_f, nueva_c>>][1] # color
                       THEN <<mov>>
                       ELSE <<>>

\* range(1, 8) has seven elements
PASOS_RAYO == 7

\* every ray ends after its first square
Deslizar_un_paso(direcciones, color, pos, tab) ==
    Concat([i \in 1..Len(direcciones) |->
        Rayo(color, posicion_a_notacion(pos[1], pos[2]), pos[1], pos[2],
             direcciones[i][1], direcciones[i][2], tab, 1)])

Deslizar(direcciones, color, pos, tab) ==
    Concat([i \in 1..Len(direcciones) |->
        Rayo(color, posicion_a_notacion(pos[1], pos[2]), pos[1], pos[2],
             direcciones[i][1], direcciones[i][2], tab, PASOS_RAYO)])

Torre_DIRECCIONES == <<<<0, 1>>, <<1, 0>>, <<0, -1>>, <<-1, 0>>>>

Torre_obtener_hijos(color, pos, tab) ==
    Deslizar(Torre_DIRECCIONES, color, pos, tab)

Alfil_DIRECCIONES == <<<<1, 1>>, <<1, -1>>, <<-1, 1>>, <<-1, -1>>>>

Alfil_obtener_hijos(color, pos, tab) ==
    Deslizar(Alfil_DIRECCIONES, color, pos, tab)

Queen_DIRECCIONES ==
    <<<<0, 1>>, <<0, -1>>, <<1, 0>>, <<-1, 0>>,
      <<1, 1>>, <<1, -1>>, <<-1, 1>>, <<-1, -1>>>>

Queen_obtener_hijos(color, pos, tab) ==
    Deslizar(Queen_DIRECCIONES, color, pos, tab)

\* one step per offset: the loops of Caballo.obtener_hijos and Rey.obtener_hijos
Saltar(offsets, color, pos, tab) ==
    LET pos_actual_not == posicion_a_notacion(pos[1], pos[2])
        uno(i) ==
            LET nueva_f == pos[1] + offsets[i][1]
                nueva_c == pos[2] + offsets[i][2]
            IN  IF /\ dentro_tablero(nueva_f, nueva_c)
                   /\ \/ tab[<<nueva_f, nueva_c>>] = VACIO
                      \/ tab[<<nueva_f, nueva_c>>][1] # color
                THEN <<<<pos_actual_not, posicion_a_notacion(nueva_f, nueva_c)>>>>
                ELSE <<>>
    IN  Concat([i \in 1..Len(offsets) |-> uno(i)])

Caballo_MOVIMIENTOS ==
    <<<<-2, -1>>, <<-2, 1>>, <<2, -1>>, <<2, 1>>,
      <<-1, -2>>, <<-1, 2>>, <<1, -2>>, <<1, 2>>>>

Caballo_obtener_hijos(color, pos, tab) ==
    Saltar(Caballo_MOVIMIENTOS, color, pos, tab)

Rey_DIRECCIONES ==
    <<<<0, 1>>, <<1, 0>>, <<0, -1>>, <<-1, 0>>,
      <<1, 1>>, <<1, -1>>, <<-1, 1>>, <<-1, -1>>>>

Rey_obtener_hijos(color, pos, tab) ==
    Saltar(Rey_DIRECCIONES, color, pos, tab)

RECURSIVE Rey_recorrer(_, _, _, _, _)
\* the while loop of Rey._verificar_enroque
Rey_recorrer(tab, fila, col_actual, col_final, direccion) ==
    IF col_actual = col_final THEN TRUE
    ELSE IF tab[<<fila, col_actual>>] # VACIO THEN FALSE
         ELSE Rey_recorrer(tab, fila, col_actual + direccion, col_final,
                           direccion)

\* the scan taken up to the rook's own square inclusive
Rey_verificar_enroque_inclusive(tab, fila, col_inicial, col_torre) ==
    LET direccion == IF col_torre > col_inicial THEN 1 ELSE -1
        col_actual == col_inicial + direccion
        col_final == col_torre + direccion
    IN  Rey_recorrer(tab, fila, col_actual, col_final, direccion)

\* no square is looked at
Rey_verificar_enroque_sin_mirar(tab, fila, col_inicial, col_torre) == TRUE

Rey_verificar_enroque(tab, fila, col_inicial, col_torre) ==
    LET direccion == IF col_torre > col_inicial THEN 1 ELSE -1
        col_actual == col_inicial + direccion
        col_final == col_torre
    IN  Rey_recorrer(tab, fila, col_actual, col_final, direccion)

\* Rey.obtener_movimientos_especiales: castling
Rey_obtener_movimientos_especiales(color, movida, pos, tab, pz) ==
    IF movida THEN <<>>
    ELSE
    LET fila_rey == IF color = "B" THEN 7 ELSE 0
        torre_corto_id == IF color = "B" THEN Id("B", "T", 2) ELSE Id("N", "T", 2)
        torre_largo_id == IF color = "B" THEN Id("B", "T", 1) ELSE Id("N", "T", 1)
        corto ==
            IF /\ tab[<<fila_rey, 7>>] = torre_corto_id
               /\ torre_corto_id \in DOMAIN pz
               /\ ~pz[torre_corto_id].movida
               /\ Rey_verificar_enroque(tab, fila_rey, 4, 7)
            THEN <<MovimientoAjedrez(posicion_a_notacion(fila_rey, 4),
                                     posicion_a_notacion(fila_rey, 6),
                                     ENROQUE, "O-O")>>
            ELSE <<>>
        largo ==
            IF /\ tab[<<fila_rey, 0>>] = torre_largo_id
               /\ torre_largo_id \in DOMAIN pz
               /\ ~pz[torre_largo_id].movida
               /\ Rey_verificar_enroque(tab, fila_rey, 4, 0)
            THEN <<MovimientoAjedrez(posicion_a_notacion(fila_rey, 4),
                                     posicion_a_notacion(fila_rey, 2),
                                     ENROQUE, "O-O-O")>>
            ELSE <<>>
    IN  corto \o largo

\* obtener_hijos of the class PIEZAS_FACTORY gives for the kind letter
obtener_hijos(tipo, color, movida, pos, tab) ==
    CASE tipo = "P" -> Peon_obtener_hijos(color, movida, pos, tab)
      [] tipo = "T" -> Torre_obtener_hijos(color, pos, tab)
      [] tipo = "C" -> Caballo_obtener_hijos(color, pos, tab)
      [] tipo = "A" -> Alfil_obtener_hijos(color, pos, tab)
      [] tipo = "Q" -> Queen_obtener_hijos(color, pos, tab)
      [] tipo = "R" -> Rey_obtener_hijos(color, pos, tab)

\* (x - y) // abs(x - y), or 0 when x = y
Direccion(x, y) == IF x = y THEN 0 ELSE IF y > x THEN 1 ELSE -1

\* the loop of _verificar_camino_libre from (f, c) up to hasta, exclusive:
\* no cell on the way holds a piece; n bounds the steps on the board
camino_sin_piezas(f, c, df, dc, hasta, tab, n) ==
    LET RECURSIVE seguir(_, _, _)
        seguir(ff, cc, k) ==
            IF <<ff, cc>> = hasta THEN TRUE
            ELSE IF k = 0 \/ ~dentro_tablero(ff, cc) THEN FALSE
            ELSE IF tab[<<ff, cc>>] # VACIO THEN FALSE
            ELSE seguir(ff + df, cc + dc, k - 1)
    IN  seguir(f, c, n)

\* Pieza._verificar_camino_libre with incluir_destino = True
verificar_camino_libre(color, desde, hasta, tab) ==
    LET df == Direccion(desde[1], hasta[1])
        dc == Direccion(desde[2], hasta[2])
    IN  /\ camino_sin_piezas(desde[1] + df, desde[2] + dc, df, dc, hasta,
                             tab, 8)
        /\ (tab[hasta] = VACIO \/ tab[hasta][1] # color)

Peon_puede_mover(color, desde, hasta, tab) ==
    LET f_desde == desde[1]
        c_desde == desde[2]
        f_hasta == hasta[1]
        c_hasta == hasta[2]
        df == f_hasta - f_desde
    IN  IF ~dentro_tablero(f_hasta, c_hasta) THEN FALSE
        ELSE IF (color = "B" /\ df >= 0) \/ (color = "N" /\ df <= 0)
        THEN FALSE
        ELSE IF c_desde = c_hasta
        THEN IF tab[hasta] # VACIO THEN FALSE
             ELSE IF Abs(df) = 1 THEN TRUE
             ELSE IF f_desde = obtener_fila_inicial(color) /\ Abs(df) = 2
             THEN tab[<<(f_desde + f_hasta) \div 2, c_desde>>] = VACIO
             ELSE FALSE
        ELSE IF Abs(c_hasta - c_desde) = 1 /\ Abs(df) = 1
        THEN tab[hasta] # VACIO /\ tab[hasta][1] # color
        ELSE FALSE

Torre_puede_mover(color, desde, hasta, tab) ==
    IF ~dentro_tablero(hasta[1], hasta[2]) THEN FALSE
    ELSE IF desde[1] # hasta[1] /\ desde[2] # hasta[2] THEN FALSE
    ELSE verificar_camino_libre(color, desde, hasta, tab)

Caballo_puede_mover(color, desde, hasta, tab) ==
    LET df == Abs(hasta[1] - desde[1])
        dc == Abs(hasta[2] - desde[2])
    IN  IF ~dentro_tablero(hasta[1], hasta[2]) THEN FALSE
        ELSE IF ~((df = 2 /\ dc = 1) \/ (df = 1 /\ dc = 2)) THEN FALSE
        ELSE tab[hasta] = VACIO \/ tab[hasta][1] # color

Alfil_puede_mover(color, desde, hasta, tab) ==
    IF ~dentro_tablero(hasta[1], hasta[2]) THEN FALSE
    ELSE IF Abs(hasta[1] - desde[1]) # Abs(hasta[2] - desde[2]) THEN FALSE
    ELSE verificar_camino_libre(color, desde, hasta, tab)

Queen_puede_mover(color, desde, hasta, tab) ==
    LET df == Abs(hasta[1] - desde[1])
        dc == Abs(hasta[2] - desde[2])
    IN  IF ~dentro_tablero(hasta[1], hasta[2]) THEN FALSE
        ELSE IF ~(df = 0 \/ dc = 0 \/ df = dc) THEN FALSE
        ELSE verificar_camino_libre(color, desde, hasta, tab)

Rey_puede_mover(color, desde, hasta, tab) ==
    LET df == Abs(hasta[1] - desde[1])
        dc == Abs(hasta[2] - desde[2])
    IN  IF ~dentro_tablero(hasta[1], hasta[2]) THEN FALSE
        ELSE IF df > 1 \/ dc > 1 THEN FALSE
        ELSE tab[hasta] = VACIO \/ tab[hasta][1] # color

\* puede_mover of that class, desde and hasta in notation
puede_mover(tipo, color, desde, hasta, tab) ==
    LET d == notacion_a_posicion(desde)
        h == notacion_a_posicion(hasta)
    IN  CASE tipo = "P" -> Peon_puede_mover(color, d, h, tab)
          [] tipo = "T" -> Torre_puede_mover(color, d, h, tab)
          [] tipo = "C" -> Caballo_puede_mover(color, d, h, tab)
          [] tipo = "A" -> Alfil_puede_mover(color, d, h, tab)
          [] tipo = "Q" -> Queen_puede_mover(color, d, h, tab)
          [] tipo = "R" -> Rey_puede_mover(color, d, h, tab)

\* obtener_movimientos_especiales of that class (Pieza's default is empty)
obtener_movimientos_especiales(tipo, color, movida, pos, tab, pz) ==
    CASE tipo = "P" -> Peon_obtener_movimientos_especiales(color, pos, tab, pz)
      [] tipo = "R" ->
            Rey_obtener_movimientos_especiales(color, movida, pos, tab, pz)
      [] OTHER -> <<>>

\* the loop of Pieza.obtener_movimientos over the "desde hasta" strings
Normales(movs_normales) ==
    [i \in 1..Len(movs_normales) |->
        MovimientoAjedrez(movs_normales[i][1], movs_normales[i][2],
                          NORMAL, Ninguna)]

\* the one element of a singleton set (binds a computed value to a name)
Unico(S) == CHOOSE x \in S : TRUE

\* Pieza.obtener_movimientos: the normal moves, then the special ones
obtener_movimientos(tipo, color, movida, pos, tab, pz) ==
    Unico({Normales(movs_normales) :
             movs_normales \in {obtener_hijos(tipo, color, movida, pos, tab)}})
    \o obtener_movimientos_especiales(tipo, color, movida, pos, tab, pz)

-----------------------------------------------------------------------------
(* GestorPiezas *)

\* a piece object as its constructor leaves it (Pieza.__init__, Peon.__init__)
PiezaNueva == [movida |-> FALSE, doble |-> FALSE]

Quitar(pz, ids) == [i \in (DOMAIN pz) \ ids |-> pz[i]]

Poner(pz, id, pieza) ==
    [i \in (DOMAIN pz) \cup {id} |-> IF i = id THEN pieza ELSE pz[i]]

\* an id already present gets a new record
registrar_pieza_sobrescribe(pz, id_pieza) ==
    IF id_pieza[2] \in TIPOS THEN Poner(pz, id_pieza, PiezaNueva) ELSE pz

registrar_pieza(pz, id_pieza) ==
    IF id_pieza \in DOMAIN pz THEN pz
    ELSE IF id_pieza[2] \in TIPOS THEN Poner(pz, id_pieza, PiezaNueva)
         ELSE pz

CONFIGURACION_PIEZAS ==
    [P |-> 8, T |-> 2, C |-> 2, A |-> 2, Q |-> 1, R |-> 1]

\* GestorPiezas.__init__ with _inicializar_piezas: the 32 standard pieces
GestorInicial ==
    LET ids == {Id(color, tipo, num) :
                    color \in {"B", "N"}, tipo \in TIPOS, num \in 1..8}
        std == {id \in ids : id[3] <= CONFIGURACION_PIEZAS[id[2]]}
    IN  [id \in std |-> PiezaNueva]

EnTablero(tab) == {tab[p] : p \in Posiciones} \ {VACIO}

\* np.where(tablero == id): the first match in row-major order
Posicion(tab, id) ==
    LET donde == {q \in Posiciones : tab[q] = id}
    IN  CHOOSE p \in donde :
            \A q \in donde : p[1] < q[1] \/ (p[1] = q[1] /\ p[2] <= q[2])

\* the registry obtener_movimientos_pieza leaves behind
obtener_movimientos_pieza_gestor(pz, id_pieza) ==
    IF id_pieza \in DOMAIN pz THEN pz ELSE registrar_pieza(pz, id_pieza)

\* the list obtener_movimientos_pieza returns
obtener_movimientos_pieza(pz, id_pieza, tab) ==
    LET pz1 == obtener_movimientos_pieza_gestor(pz, id_pieza)
    IN  IF id_pieza \notin DOMAIN pz1 THEN <<>>
        ELSE IF id_pieza \notin EnTablero(tab) THEN <<>>
        ELSE obtener_movimientos(id_pieza[2], id_pieza[1],
                                 pz1[id_pieza].movida,
                                 Posicion(tab, id_pieza), tab, pz1)

\* no entry is deleted
sincronizar_sin_eliminar(pz, tab) == pz

\* the surviving entries are built anew
sincronizar_reiniciando(pz, tab) ==
    [id \in (DOMAIN pz) \cap EnTablero(tab) |-> PiezaNueva]

\* the ids of the board the registry lacks are registered as well
sincronizar_registrando(pz, tab) ==
    [id \in EnTablero(tab) |-> IF id \in DOMAIN pz THEN pz[id] ELSE PiezaNueva]

sincronizar_con_tablero(pz, tab) ==
    LET piezas_en_tablero == EnTablero(tab)
        piezas_a_eliminar == (DOMAIN pz) \ piezas_en_tablero
    IN  Quitar(pz, piezas_a_eliminar)

\* int(pid[2]): the third character of the id string, the number's first digit
TercerCaracter(id) == IF id[3] >= 10 THEN id[3] \div 10 ELSE id[3]

Maximo(S) == CHOOSE x \in S : \A y \in S : y <= x

\* the occupant of the destination is deleted whatever the move type
ejecutar_captura_tambien_enroque(movimiento, tab, pz) ==
    LET hasta == notacion_a_posicion(movimiento.hasta)
        pieza_destino_id == tab[hasta]
    IN  IF pieza_destino_id # VACIO /\ pieza_destino_id \in DOMAIN pz
        THEN Quitar(pz, {pieza_destino_id})
        ELSE pz

\* the capture of ejecutar_movimiento: the registry after "del"
ejecutar_captura(movimiento, tab, pz) ==
    LET hasta == notacion_a_posicion(movimiento.hasta)
        pieza_destino_id == tab[hasta]
    IN  IF /\ pieza_destino_id # VACIO
           /\ movimiento.tipo # ENROQUE
           /\ pieza_destino_id \in DOMAIN pz
        THEN Quitar(pz, {pieza_destino_id})
        ELSE pz

\* max_num is used as it is
siguiente_numero_sin_sumar(pz, color, tipo) ==
    Maximo({0} \cup {TercerCaracter(pid) :
                        pid \in {q \in DOMAIN pz : q[1] = color /\ q[2] = tipo}})

\* "Encontrar siguiente numero disponible"
siguiente_numero(pz, color, tipo) ==
    Maximo({0} \cup {TercerCaracter(pid) :
                        pid \in {q \in DOMAIN pz : q[1] = color /\ q[2] = tipo}})
    + 1

\* the origin square is not cleared
ejecutar_promocion_sin_vaciar(movimiento, tab, pz) ==
    LET desde == notacion_a_posicion(movimiento.desde)
        hasta == notacion_a_posicion(movimiento.hasta)
        pieza_id == tab[desde]
        color == pieza_id[1]
        tipo == movimiento.info
        nuevo_num == siguiente_numero(pz, color, tipo)
        nuevo_id == Id(color, tipo, nuevo_num)
        pz2 == Quitar(pz, {pieza_id})
    IN  [tab |-> [tab EXCEPT ![hasta] = nuevo_id],
         pz |-> Poner(pz2, nuevo_id, PiezaNueva)]

\* the PROMOCION branch: board and registry
ejecutar_promocion(movimiento, tab, pz) ==
    LET desde == notacion_a_posicion(movimiento.desde)
        hasta == notacion_a_posicion(movimiento.hasta)
        pieza_id == tab[desde]
        color == pieza_id[1]
        tipo == movimiento.info
        nuevo_num == siguiente_numero(pz, color, tipo)
        nuevo_id == Id(color, tipo, nuevo_num)
        pz2 == Quitar(pz, {pieza_id})
    IN  [tab |-> [[tab EXCEPT ![desde] = VACIO] EXCEPT ![hasta] = nuevo_id],
         pz |-> Poner(pz2, nuevo_id, PiezaNueva)]

\* the ENROQUE branch: "pass"
ejecutar_enroque(movimiento, tab, pz) == [tab |-> tab, pz |-> pz]

\* movida is left as it was
marcar_sin_movida(pieza, pieza_id, desde, hasta) ==
    [movida |-> pieza.movida,
     doble |-> IF pieza_id[2] = "P" THEN Abs(hasta[1] - desde[1]) = 2
               ELSE pieza.doble]

\* the double-step flag is set by any advance of a pawn
marcar_doble_cualquier_avance(pieza, pieza_id, desde, hasta) ==
    [movida |-> TRUE,
     doble |-> IF pieza_id[2] = "P" THEN Abs(hasta[1] - desde[1]) >= 1
               ELSE pieza.doble]

\* the flags the last branch sets on the moving piece object
marcar_movida(pieza, pieza_id, desde, hasta) ==
    [movida |-> TRUE,
     doble |-> IF pieza_id[2] = "P" THEN Abs(hasta[1] - desde[1]) = 2
               ELSE pieza.doble]

\* the double-step flag of every other piece is cleared
ejecutar_normal_limpia_dobles(movimiento, tab, pz, pieza) ==
    LET desde == notacion_a_posicion(movimiento.desde)
        hasta == notacion_a_posicion(movimiento.hasta)
        pieza_id == tab[desde]
    IN  [tab |-> [[tab EXCEPT ![hasta] = pieza_id] EXCEPT ![desde] = VACIO],
         pz |-> [id \in DOMAIN pz |->
                    IF id = pieza_id
                    THEN marcar_movida(pieza, pieza_id, desde, hasta)
                    ELSE [pz[id] EXCEPT !.doble = FALSE]]]

\* the last branch (NORMAL and EN_PASSANT); pieza is the object looked up
\* before the capture, pz the registry after it
ejecutar_normal(movimiento, tab, pz, pieza) ==
    LET desde == notacion_a_posicion(movimiento.desde)
        hasta == notacion_a_posicion(movimiento.hasta)
        pieza_id == tab[desde]
    IN  [tab |-> [[tab EXCEPT ![hasta] = pieza_id] EXCEPT ![desde] = VACIO],
         pz |-> IF pieza_id \in DOMAIN pz
                THEN [pz EXCEPT ![pieza_id] =
                         marcar_movida(pieza, pieza_id, desde, hasta)]
                ELSE pz]

\* nuevo_tablero = tablero: the branches write into the argument itself
tablero_sin_copia(tab, nuevo_tablero) == nuevo_tablero

\* nuevo_tablero = tablero.copy(): the argument array once the branches have
\* written nuevo_tablero, a different array
tablero_tras_copy(tab, nuevo_tablero) == tab

\* GestorPiezas.ejecutar_movimiento: the returned board (tab), the argument
\* array after the call (entrada), the registry afterwards (pz) and the
\* registry as the closing sincronizar_con_tablero found it (pz_sin_sync);
\* error when the last branch meets pieza = None
ejecutar_movimiento(movimiento, tab, pz) ==
    LET desde == notacion_a_posicion(movimiento.desde)
        pieza_id == tab[desde]
        registrada == pieza_id \in DOMAIN pz
        pz1 == ejecutar_captura(movimiento, tab, pz)
        r == IF movimiento.tipo = PROMOCION
             THEN ejecutar_promocion(movimiento, tab, pz1)
             ELSE IF movimiento.tipo = ENROQUE
                  THEN ejecutar_enroque(movimiento, tab, pz1)
                  ELSE ejecutar_normal(movimiento, tab, pz1,
                                       IF registrada THEN pz[pieza_id]
                                       ELSE PiezaNueva)
    IN  IF movimiento.tipo \notin {PROMOCION, ENROQUE} /\ ~registrada
        THEN [tab |-> tab, pz |-> pz1, error |-> TRUE,
              entrada |-> tablero_tras_copy(tab, r.tab),
              pz_sin_sync |-> pz1]
        ELSE [tab |-> r.tab,
              pz |-> sincronizar_con_tablero(r.pz, r.tab),
              error |-> FALSE,
              entrada |-> tablero_tras_copy(tab, r.tab),
              pz_sin_sync |-> r.pz]

get_pieza(pz, id_pieza) == id_pieza \in DOMAIN pz

-----------------------------------------------------------------------------
(* The boards the sources build *)

TableroVacio == [p \in Posiciones |-> VACIO]

Colocar(tab, fila, ids) ==
    [p \in Posiciones |-> IF p[1] = fila THEN ids[p[2] + 1] ELSE tab[p]]

Traseras(color) ==
    <<Id(color, "T", 1), Id(color, "C", 1), Id(color, "A", 1), Id(color, "Q", 1),
      Id(color, "R", 1), Id(color, "A", 2), Id(color, "C", 2), Id(color, "T", 2)>>

Peones(color) == [i \in 1..8 |-> Id(color, "P", i)]

\* AgenteAjedrez.__init__ with estado = None
TableroInicial ==
    Colocar(Colocar(Colocar(Colocar(TableroVacio,
        7, Traseras("B")), 6, Peones("B")), 1, Peones("N")), 0, Traseras("N"))

\* tablero_enroque of the castling test
TableroEnroque ==
    [TableroVacio EXCEPT ![<<7, 4>>] = Id("B", "R", 1),
                         ![<<7, 7>>] = Id("B", "T", 2),
                         ![<<7, 0>>] = Id("B", "T", 1),
                         ![<<0, 4>>] = Id("N", "R", 1),
                         ![<<0, 7>>] = Id("N", "T", 2),
                         ![<<0, 0>>] = Id("N", "T", 1)]

\* crear_tablero_prueba_especial
TableroEspecial ==
    [TableroVacio EXCEPT ![<<1, 0>>] = Id("B", "P", 1),
                         ![<<3, 3>>] = Id("B", "P", 2),
                         ![<<0, 4>>] = Id("N", "R", 1),
                         ![<<1, 2>>] = Id("N", "P", 2),
                         ![<<1, 4>>] = Id("N", "P", 1),
                         ![<<7, 4>>] = Id("B", "R", 1),
                         ![<<7, 3>>] = Id("B", "Q", 1)]

-----------------------------------------------------------------------------
(* The state machine: a driver that holds one board and one GestorPiezas,  *)
(* asks the registry for the candidates of a piece and applies one.        *)

Escenarios ==
    [inicial |-> TableroInicial,
     enroque |-> TableroEnroque,
     especial |-> TableroEspecial]

\* ids the driver queries besides the ones it moves
IdsConsulta == {Id("B", "R", 1), Id("N", "P", 2), Id("B", "Q", 2)}

\* self.color and self.visitados after __init__
AgenteNuevo(color, estado) ==
    [color |-> IF color = "blancas" THEN 1 ELSE -1, visitados |-> {estado}]

Init ==
    /\ esc \in DOMAIN Escenarios
    /\ tablero = Escenarios[esc]
    /\ piezas = GestorInicial
    /\ agente = AgenteNuevo("blancas", tablero)
    /\ agente2 = Ninguna
    /\ movidas = {}
    /\ ult = [op |-> "init"]
    /\ tabAntes = tablero
    /\ piezasAntes = piezas
    /\ reyesMovidos = {}
    /\ ultDoble = VACIO
    /\ doblesViejos = {}
    /\ nmov = 0

\* the pawn a move sends two ranks ahead, VACIO when it is no such move
PasoDoble(mov, tab) ==
    LET desde == notacion_a_posicion(mov.desde)
        hasta == notacion_a_posicion(mov.hasta)
    IN  IF /\ mov.tipo = NORMAL
           /\ tab[desde][2] = "P"
           /\ Abs(hasta[1] - desde[1]) = 2
        THEN tab[desde]
        ELSE VACIO

\* nuevo_tablero = gestor.ejecutar_movimiento(mov, tablero) for a candidate
\* mov of a piece on the board
Ejecutar ==
    /\ nmov < MaxMov
    /\ \E id \in EnTablero(tablero) \cap DOMAIN piezas :
       \E movs \in {obtener_movimientos_pieza(piezas, id, tablero)} :
       \E i \in 1..Len(movs) :
       \E r \in {ejecutar_movimiento(movs[i], tablero, piezas)} :
               LET mov == movs[i]
                   pieza_id == tablero[notacion_a_posicion(mov.desde)]
                   doble == PasoDoble(mov, tablero)
               IN  /\ ~r.error
                   /\ tablero' = r.tab
                   /\ piezas' = r.pz
                   /\ ult' = [op |-> "ejecutar", mov |-> mov, id |-> pieza_id,
                              entrada |-> r.entrada,
                              pz_sin_sync |-> r.pz_sin_sync]
                   /\ reyesMovidos' =
                        IF /\ mov.tipo = NORMAL
                           /\ pieza_id[2] = "R"
                           /\ r.tab[notacion_a_posicion(mov.hasta)] = pieza_id
                        THEN reyesMovidos \cup {pieza_id}
                        ELSE reyesMovidos
                   /\ ultDoble' = doble
                   /\ doblesViejos' =
                        ((doblesViejos \cup {ultDoble}) \ {VACIO}) \ {doble}
    /\ tabAntes' = tablero
    /\ piezasAntes' = piezas
    /\ nmov' = nmov + 1
    /\ UNCHANGED <<esc, agente, agente2, movidas>>

\* gestor.obtener_movimientos_pieza(id, tablero) as a query of the driver
Consultar ==
    /\ nmov < MaxMov
    /\ \E id \in IdsConsulta :
         /\ piezas' = obtener_movimientos_pieza_gestor(piezas, id)
         /\ ult' = [op |-> "consultar", id |-> id,
                    movs |-> obtener_movimientos_pieza(piezas, id, tablero),
                    entrada |-> tablero]
    /\ tabAntes' = tablero
    /\ piezasAntes' = piezas
    /\ nmov' = nmov + 1
    /\ UNCHANGED <<tablero, reyesMovidos, ultDoble, doblesViejos, esc, agente,
                   agente2, movidas>>

\* the castle move the driver builds by hand
mov_enroque == MovimientoAjedrez(<<"e", 1>>, <<"g", 1>>, ENROQUE, "O-O")

\* gestor.ejecutar_movimiento(mov_enroque, tablero)
EjecutarEnroque ==
    /\ nmov < MaxMov
    /\ \E r \in {ejecutar_movimiento(mov_enroque, tablero, piezas)} :
         /\ ~r.error
         /\ tablero' = r.tab
         /\ piezas' = r.pz
         /\ ult' = [op |-> "ejecutar", mov |-> mov_enroque,
                    id |-> tablero[notacion_a_posicion(mov_enroque.desde)],
                    entrada |-> r.entrada,
                    pz_sin_sync |-> r.pz_sin_sync]
    /\ ultDoble' = VACIO
    /\ doblesViejos' = (doblesViejos \cup {ultDoble}) \ {VACIO}
    /\ tabAntes' = tablero
    /\ piezasAntes' = piezas
    /\ nmov' = nmov + 1
    /\ UNCHANGED <<reyesMovidos, esc, agente, agente2, movidas>>

Next == Ejecutar \/ Consultar \/ EjecutarEnroque

Spec == Init /\ [][Next]_vars

-----------------------------------------------------------------------------
(* GestorPiezas.registrar_pieza called between the moves *)

\* a king and a pawn of the standard set, a second queen, an unknown kind
IdsRegistro == {Id("B", "R", 1), Id("B", "P", 5), Id("B", "Q", 2),
                Id("B", "X", 1)}

\* gestor.registrar_pieza(id)
Registrar ==
    /\ nmov < MaxMov
    /\ \E id \in IdsRegistro :
         /\ piezas' = registrar_pieza(piezas, id)
         /\ ult' = [op |-> "registrar", id |-> id]
    /\ tabAntes' = tablero
    /\ piezasAntes' = piezas
    /\ nmov' = nmov + 1
    /\ UNCHANGED <<tablero, reyesMovidos, ultDoble, doblesViejos, esc, agente,
                   agente2, movidas>>

NextRegistro == Ejecutar \/ Registrar

SpecRegistro == Init /\ [][NextRegistro]_vars

-----------------------------------------------------------------------------
(* AgenteAjedrez.mover driven with move strings *)

\* the squares the move strings are built from
CASILLAS_MOVER ==
    {<<"e", 1>>, <<"e", 2>>, <<"e", 3>>, <<"e", 7>>, <<"e", 8>>, <<"h", 5>>}

\* "O-O", "O-O-O" and the strings "xy-zw": <<desde, hasta>>
CADENAS == {<<"O-O">>, <<"O-O-O">>} \cup (CASILLAS_MOVER \X CASILLAS_MOVER)

PROMOCIONES == {"Q", "P", "R"}

\* the move mover builds from a castle string
mover_enroque(cadena, color) ==
    LET fila == IF color = 1 THEN 7 ELSE 0
        desde == <<"e", 8 - fila>>
        hasta == IF cadena = <<"O-O">> THEN <<"g", desde[2]>>
                 ELSE <<"c", desde[2]>>
    IN  MovimientoAjedrez(desde, hasta, ENROQUE, cadena[1])

\* the move mover builds from a string "xy-zw" whose origin holds id_pieza
mover_normal(cadena, promocion_pieza, id_pieza) ==
    LET desde == cadena[1]
        hasta == cadena[2]
    IN  IF id_pieza[2] = "P" /\ (hasta[2] = 8 \/ hasta[2] = 1)
        THEN MovimientoAjedrez(desde, hasta, PROMOCION, promocion_pieza)
        ELSE MovimientoAjedrez(desde, hasta, NORMAL, Ninguna)

\* the origin of "xy-zw" is empty or holds a piece of the other colour
mover_rechaza(cadena, color, tab) ==
    LET id_pieza == tab[notacion_a_posicion(cadena[1])]
        es_pieza_blanca == id_pieza[1] = "B"
    IN  \/ id_pieza = VACIO
        \/ (color = 1 /\ ~es_pieza_blanca) \/ (color = -1 /\ es_pieza_blanca)

\* no promotion target is refused
promocion_siempre_admitida(promocion_pieza) == FALSE

\* the promotion targets mover refuses
promocion_prohibida(promocion_pieza) ==
    promocion_pieza = "P" \/ promocion_pieza = "R"

\* AgenteAjedrez.mover: the value returned ("True", "False", "None", or
\* "error" when the executor raises), the move handed to the executor, and
\* estado, the registry and visitados afterwards
mover(cadena, promocion_pieza, ag, tab, pz) ==
    LET queda(ret) == [ret |-> ret, mov |-> Ninguna, tab |-> tab, pz |-> pz,
                       visitados |-> ag.visitados]
    IN  IF promocion_prohibida(promocion_pieza)
        THEN queda("None")
        ELSE IF cadena # <<"O-O">> /\ cadena # <<"O-O-O">>
                /\ mover_rechaza(cadena, ag.color, tab)
        THEN queda("False")
        ELSE LET movimiento ==
                     IF cadena = <<"O-O">> \/ cadena = <<"O-O-O">>
                     THEN mover_enroque(cadena, ag.color)
                     ELSE mover_normal(cadena, promocion_pieza,
                                       tab[notacion_a_posicion(cadena[1])])
                 r == ejecutar_movimiento(movimiento, tab, pz)
             IN  IF r.error
                 THEN [ret |-> "error", mov |-> movimiento, tab |-> tab,
                       pz |-> r.pz, visitados |-> ag.visitados]
                 ELSE [ret |-> "True", mov |-> movimiento, tab |-> r.tab,
                       pz |-> r.pz,
                       visitados |-> ag.visitados \cup {r.tab}]

InitAgente ==
    /\ esc = "inicial"
    /\ tablero = TableroInicial
    /\ piezas = GestorInicial
    /\ \E color \in {"blancas", "negras"} :
            agente = AgenteNuevo(color, tablero)
    /\ agente2 = Ninguna
    /\ movidas = {}
    /\ ult = [op |-> "init"]
    /\ tabAntes = tablero
    /\ piezasAntes = piezas
    /\ reyesMovidos = {}
    /\ ultDoble = VACIO
    /\ doblesViejos = {}
    /\ nmov = 0

\* agente.mover(cadena, promocion_pieza)
Mover ==
    /\ nmov < MaxMov
    /\ \E cadena \in CADENAS : \E promocion_pieza \in PROMOCIONES :
       \E m \in {mover(cadena, promocion_pieza, agente, tablero, piezas)} :
           /\ tablero' = m.tab
           /\ piezas' = m.pz
           /\ agente' = [agente EXCEPT !.visitados = m.visitados]
           /\ ult' = [op |-> "mover", cadena |-> cadena,
                      promocion_pieza |-> promocion_pieza,
                      ret |-> m.ret, mov |-> m.mov,
                      visitados_antes |-> agente.visitados]
           /\ \E doble \in {IF m.ret = "True" THEN PasoDoble(m.mov, tablero)
                             ELSE VACIO} :
                /\ ultDoble' = IF m.ret = "True" THEN doble ELSE ultDoble
                /\ doblesViejos' =
                     IF m.ret = "True"
                     THEN ((doblesViejos \cup {ultDoble}) \ {VACIO}) \ {doble}
                     ELSE doblesViejos
    /\ tabAntes' = tablero
    /\ piezasAntes' = piezas
    /\ nmov' = nmov + 1
    /\ UNCHANGED <<reyesMovidos, esc, agente2, movidas>>

NextAgente == Mover

SpecAgente == InitAgente /\ [][NextAgente]_vars

-----------------------------------------------------------------------------
(* The two-agent driver: agente plays white, agente2 plays black, each with
   its own GestorPiezas; after a call of one agent's mover its estado is
   assigned to the other agent, so one board is shared and `piezas` is the
   white agent's registry while agente2.piezas is the black agent's *)

MaxMovDos == 3

\* the move strings the driver is run with
CADENAS_DOS ==
    {<<"O-O">>, << <<"e", 1>>, <<"e", 2>> >>,
     << <<"e", 2>>, <<"e", 3>> >>, << <<"e", 2>>, <<"e", 8>> >>,
     << <<"e", 7>>, <<"e", 5>> >>, << <<"e", 7>>, <<"e", 1>> >>,
     << <<"e", 8>>, <<"e", 7>> >>}

\* the promotion target when mover is called with the string alone
PROMOCION_POR_DEFECTO == "Q"

InitDosAgentes ==
    /\ esc = "inicial"
    /\ tablero = TableroInicial
    /\ piezas = GestorInicial
    /\ agente = AgenteNuevo("blancas", tablero)
    /\ agente2 = [color |-> AgenteNuevo("negras", tablero).color,
                  visitados |-> AgenteNuevo("negras", tablero).visitados,
                  piezas |-> GestorInicial]
    /\ movidas = {}
    /\ ult = [op |-> "init"]
    /\ tabAntes = tablero
    /\ piezasAntes = piezas
    /\ reyesMovidos = {}
    /\ ultDoble = VACIO
    /\ doblesViejos = {}
    /\ nmov = 0

\* agente.mover(movimiento); agente2.estado = agente.estado
MoverBlancas ==
    /\ nmov < MaxMovDos
    /\ \E cadena \in CADENAS_DOS :
       \E m \in {mover(cadena, PROMOCION_POR_DEFECTO, agente, tablero,
                       piezas)} :
           /\ tablero' = m.tab
           /\ piezas' = m.pz
           /\ agente' = [agente EXCEPT !.visitados = m.visitados]
           /\ ult' = [op |-> "mover", color |-> "blancas",
                      cadena |-> cadena,
                      promocion_pieza |-> PROMOCION_POR_DEFECTO,
                      ret |-> m.ret, mov |-> m.mov,
                      visitados_antes |-> agente.visitados,
                      otro_antes |-> agente2.piezas]
    /\ tabAntes' = tablero
    /\ piezasAntes' = piezas
    /\ nmov' = nmov + 1
    /\ UNCHANGED <<reyesMovidos, ultDoble, doblesViejos, esc, agente2, movidas>>

\* agente2.mover(movimiento); agente.estado = agente2.estado
MoverNegras ==
    /\ nmov < MaxMovDos
    /\ \E cadena \in CADENAS_DOS :
       \E m \in {mover(cadena, PROMOCION_POR_DEFECTO, agente2, tablero,
                       agente2.piezas)} :
           /\ tablero' = m.tab
           /\ agente2' = [agente2 EXCEPT !.visitados = m.visitados,
                                         !.piezas = m.pz]
           /\ ult' = [op |-> "mover", color |-> "negras",
                      cadena |-> cadena,
                      promocion_pieza |-> PROMOCION_POR_DEFECTO,
                      ret |-> m.ret, mov |-> m.mov,
                      visitados_antes |-> agente2.visitados,
                      otro_antes |-> piezas]
    /\ tabAntes' = tablero
    /\ piezasAntes' = agente2.piezas
    /\ nmov' = nmov + 1
    /\ UNCHANGED <<piezas, reyesMovidos, ultDoble, doblesViejos, esc, agente,
                   movidas>>

NextDosAgentes == MoverBlancas \/ MoverNegras

SpecDosAgentes == InitDosAgentes /\ [][NextDosAgentes]_vars

-----------------------------------------------------------------------------
(* A game on the standard board with one GestorPiezas: the driver asks the
   registry for the candidates of the piece on a square and applies the
   candidate that goes to a given square, the pairs of squares being those
   of a short game of both colours *)

MaxJugadas == 11

\* the pairs <<desde, hasta>> of the game: the white h-pawn and rook, the
\* white f-pawn up to its promotion on h8, the black knight from b8 to h2
JUGADAS ==
    {<< <<"h", 2>>, <<"h", 3>> >>, << <<"h", 1>>, <<"h", 2>> >>,
     << <<"f", 2>>, <<"f", 4>> >>, << <<"f", 4>>, <<"f", 5>> >>,
     << <<"f", 5>>, <<"f", 6>> >>, << <<"f", 6>>, <<"g", 7>> >>,
     << <<"g", 7>>, <<"h", 8>> >>,
     << <<"b", 8>>, <<"c", 6>> >>, << <<"c", 6>>, <<"e", 5>> >>,
     << <<"e", 5>>, <<"g", 4>> >>, << <<"g", 4>>, <<"h", 2>> >>}

InitPartida ==
    /\ esc = "inicial"
    /\ tablero = TableroInicial
    /\ piezas = GestorInicial
    /\ agente = AgenteNuevo("blancas", tablero)
    /\ agente2 = Ninguna
    /\ movidas = {}
    /\ ult = [op |-> "init"]
    /\ tabAntes = tablero
    /\ piezasAntes = piezas
    /\ reyesMovidos = {}
    /\ ultDoble = VACIO
    /\ doblesViejos = {}
    /\ nmov = 0

\* nuevo_tablero = gestor.ejecutar_movimiento(mov, tablero) for the candidate
\* mov of the piece on jugada[1] that goes to jugada[2]
EjecutarJugada ==
    /\ nmov < MaxJugadas
    /\ \E jugada \in JUGADAS :
       \E id \in {tablero[notacion_a_posicion(jugada[1])]} :
           /\ id \in DOMAIN piezas
           /\ \E movs \in {obtener_movimientos_pieza(piezas, id, tablero)} :
              \E i \in 1..Len(movs) :
                  /\ movs[i].hasta = jugada[2]
                  /\ \E r \in {ejecutar_movimiento(movs[i], tablero, piezas)} :
                         /\ ~r.error
                         /\ tablero' = r.tab
                         /\ piezas' = r.pz
                         /\ movidas' = movidas \cup
                              {m \in DOMAIN r.pz : r.pz[m].movida}
                         /\ ult' = [op |-> "ejecutar", mov |-> movs[i],
                                    id |-> id, entrada |-> r.entrada,
                                    pz_sin_sync |-> r.pz_sin_sync]
    /\ tabAntes' = tablero
    /\ piezasAntes' = piezas
    /\ nmov' = nmov + 1
    /\ UNCHANGED <<reyesMovidos, ultDoble, doblesViejos, esc, agente, agente2>>

NextPartida == EjecutarJugada

SpecPartida == InitPartida /\ [][NextPartida]_vars

-----------------------------------------------------------------------------
(* The coordinate conversions of MovimientosTablero applied to given       *)
(* squares and notations, one after the other                              *)

\* conversions applied to one input
MaxConv == 2

LETRAS_ENTRADA == {"a", "b", "c", "d", "e", "f", "g", "h", "i", "A"}

DIGITOS_ENTRADA == 0..9

InitNotacion ==
    /\ esc = "inicial"
    /\ tablero = TableroInicial
    /\ piezas = GestorInicial
    /\ agente = AgenteNuevo("blancas", tablero)
    /\ agente2 = Ninguna
    /\ movidas = {}
    /\ \/ \E pos \in Posiciones :
             ult = [op |-> "entrada", clase_entrada |-> "posicion",
                    entrada |-> pos, clase |-> "posicion", valor |-> pos]
       \/ \E notacion \in LETRAS_ENTRADA \X DIGITOS_ENTRADA :
             ult = [op |-> "entrada", clase_entrada |-> "notacion",
                    entrada |-> notacion, clase |-> "notacion",
                    valor |-> notacion]
    /\ tabAntes = tablero
    /\ piezasAntes = piezas
    /\ reyesMovidos = {}
    /\ ultDoble = VACIO
    /\ doblesViejos = {}
    /\ nmov = 0

\* MovimientosTablero.posicion_a_notacion(fila, col)
APosicionANotacion ==
    /\ nmov < MaxConv
    /\ ult.clase = "posicion"
    /\ ult' = [ult EXCEPT !.op = "posicion_a_notacion",
                          !.clase = "notacion",
                          !.valor = posicion_a_notacion(ult.valor[1],
                                                        ult.valor[2])]
    /\ nmov' = nmov + 1
    /\ UNCHANGED <<tablero, piezas, tabAntes, piezasAntes, reyesMovidos,
                   ultDoble, doblesViejos, esc, agente, agente2, movidas>>

\* MovimientosTablero.notacion_a_posicion(notacion)
ANotacionAPosicion ==
    /\ nmov < MaxConv
    /\ ult.clase = "notacion"
    /\ \E r \in {notacion_a_posicion_o_error(ult.valor)} :
         ult' = IF r.error
                THEN [ult EXCEPT !.op = "notacion_a_posicion",
                                 !.clase = "ValueError"]
                ELSE [ult EXCEPT !.op = "notacion_a_posicion",
                                 !.clase = "posicion",
                                 !.valor = r.pos]
    /\ nmov' = nmov + 1
    /\ UNCHANGED <<tablero, piezas, tabAntes, piezasAntes, reyesMovidos,
                   ultDoble, doblesViejos, esc, agente, agente2, movidas>>

NextNotacion == APosicionANotacion \/ ANotacionAPosicion

SpecNotacion == InitNotacion /\ [][NextNotacion]_vars

-----------------------------------------------------------------------------
(* Vocabulary of the properties *)

Aplicado == ult.op = "ejecutar"

AplicadoTipo(tipos) == Aplicado /\ ult.mov.tipo \in tipos

UltDesde == notacion_a_posicion(ult.mov.desde)

UltHasta == notacion_a_posicion(ult.mov.hasta)

\* the candidates the registry gives for a piece in the current state
Candidatos(id) == obtener_movimientos_pieza(piezas, id, tablero)

HayCandidato(id, tipo, desde, hasta) ==
    \E movs \in {Candidatos(id)} : \E i \in 1..Len(movs) :
        /\ movs[i].tipo = tipo
        /\ movs[i].desde = desde
        /\ movs[i].hasta = hasta

HayEnroque(id) ==
    \E movs \in {Candidatos(id)} : \E i \in 1..Len(movs) :
        movs[i].tipo = ENROQUE

EnJuego == EnTablero(tablero) \cap DOMAIN piezas

Movido == ult.op = "mover"

\* the last mover call left estado, the registry and visitados as they were
MoverSinEfecto ==
    /\ tablero = tabAntes
    /\ piezas = piezasAntes
    /\ agente.visitados = ult.visitados_antes

-----------------------------------------------------------------------------
(* C1: after every applied move (of any of the four types, its origin      *)
(* square occupied) the set of registry keys equals the set of non-empty   *)
(* cells of the returned board.                                            *)
C1_RegistroIgualTablero ==
    Aplicado => DOMAIN piezas = EnTablero(tablero)

\* two moves applied from the standard starting board
C1_Testigo ==
    /\ esc = "inicial"
    /\ Aplicado
    /\ nmov = 2
    /\ tabAntes # TableroInicial
    /\ Cardinality(DOMAIN piezas) = 32

(* C2: a castle applied with king and rook unmoved on their home squares   *)
(* and the squares between them empty puts the king two files toward the   *)
(* rook, the rook on the square the king crossed, leaves both home squares *)
(* empty and marks both pieces as moved.                                   *)
C2_EnroqueMueveReyYTorre ==
    \A color \in {"B", "N"} : \A lado \in {"O-O", "O-O-O"} :
        LET fila == IF color = "B" THEN 7 ELSE 0
            rey == Id(color, "R", 1)
            torre == Id(color, "T", IF lado = "O-O" THEN 2 ELSE 1)
            col_torre == IF lado = "O-O" THEN 7 ELSE 0
            col_rey == IF lado = "O-O" THEN 6 ELSE 2
            col_torre_fin == IF lado = "O-O" THEN 5 ELSE 3
            entre == IF lado = "O-O" THEN {5, 6} ELSE {1, 2, 3}
        IN  ( /\ AplicadoTipo({ENROQUE})
              /\ ult.mov.info = lado
              /\ ult.mov.desde = posicion_a_notacion(fila, 4)
              /\ tabAntes[<<fila, 4>>] = rey
              /\ tabAntes[<<fila, col_torre>>] = torre
              /\ \A c \in entre : tabAntes[<<fila, c>>] = VACIO
              /\ rey \in DOMAIN piezasAntes /\ ~piezasAntes[rey].movida
              /\ torre \in DOMAIN piezasAntes /\ ~piezasAntes[torre].movida )
            => /\ tablero[<<fila, col_rey>>] = rey
               /\ tablero[<<fila, col_torre_fin>>] = torre
               /\ tablero[<<fila, 4>>] = VACIO
               /\ tablero[<<fila, col_torre>>] = VACIO
               /\ rey \in DOMAIN piezas /\ piezas[rey].movida
               /\ torre \in DOMAIN piezas /\ piezas[torre].movida

(* C3: an applied en-passant move leaves the capturing pawn on its         *)
(* destination, its origin empty, the captured pawn's square (rank of the  *)
(* origin, file of the destination) empty and the captured pawn            *)
(* unregistered.                                                           *)
C3_AlPasoQuitaElPeon ==
    AplicadoTipo({EN_PASSANT}) =>
        LET capturado == <<UltDesde[1], UltHasta[2]>>
        IN  /\ tablero[UltHasta] = ult.id
            /\ tablero[UltDesde] = VACIO
            /\ tablero[capturado] = VACIO
            /\ tabAntes[capturado] \notin DOMAIN piezas

C5_PiezaEnDestinoMovida ==
    (AplicadoTipo({NORMAL, EN_PASSANT, PROMOCION}) /\ tablero[UltHasta] # VACIO)
        => /\ tablero[UltHasta] \in DOMAIN piezas
           /\ piezas[tablero[UltHasta]].movida

(* C6: a king that an applied normal move has relocated never again gets   *)
(* a castle candidate, also when it is back on its home square.            *)
C6_ReyMovidoSinEnroque ==
    \A rey \in reyesMovidos : ~HayEnroque(rey)

\* the white king went away and came back: the castling test board again
C6_Testigo ==
    /\ Id("B", "R", 1) \in reyesMovidos
    /\ nmov = 2
    /\ tablero = TableroEnroque
    /\ ~piezas[Id("B", "T", 2)].movida
    /\ ~piezas[Id("B", "T", 1)].movida

(* C7: right after a castle move has been applied, the king that castled   *)
(* has no castle candidate.                                                *)
C7_TrasEnroqueSinEnroque ==
    AplicadoTipo({ENROQUE}) => ~HayEnroque(ult.id)

C9_AlPasoSiiCondiciones ==
    \A peon \in {id \in EnJuego : id[2] = "P"} :
    \A movs \in {Candidatos(peon)} :
    \A pos \in {Posicion(tablero, peon)} :
    \A dc \in {-1, 1} :
        LET f == pos[1]
            c == pos[2]
            adelante == IF peon[1] = "B" THEN f - 1 ELSE f + 1
            vecino == tablero[<<f, c + dc>>]
        IN  (/\ dentro_tablero(adelante, c + dc)
             /\ \E i \in 1..Len(movs) :
                    /\ movs[i].tipo = EN_PASSANT
                    /\ movs[i].desde = posicion_a_notacion(f, c)
                    /\ movs[i].hasta = posicion_a_notacion(adelante, c + dc))
            <=> /\ f = (IF peon[1] = "B" THEN 3 ELSE 4)
                /\ c + dc \in Filas
                /\ vecino[2] = "P"
                /\ vecino[1] \in {"B", "N"} \ {peon[1]}
                /\ vecino \in DOMAIN piezas
                /\ piezas[vecino].doble

\* the black c-pawn has just gone c7-c5 beside the white pawn on d5
C9_Testigo ==
    /\ Aplicado
    /\ ult.id = Id("N", "P", 2)
    /\ piezas[Id("N", "P", 2)].doble
    /\ HayCandidato(Id("B", "P", 2), EN_PASSANT, <<"d", 5>>, <<"c", 6>>)

(* C10: a pawn whose double step is older than the last applied move       *)
(* cannot be captured en passant: no pawn has an en-passant candidate      *)
(* against it.                                                             *)
C10_AlPasoSoloInmediato ==
    \A viejo \in doblesViejos :
    \A peon \in {id \in EnJuego : id[2] = "P"} :
    \A movs \in {Candidatos(peon)} : \A i \in 1..Len(movs) :
        movs[i].tipo = EN_PASSANT =>
            tablero[<<Posicion(tablero, peon)[1],
                      notacion_a_posicion(movs[i].hasta)[2]>>] # viejo

(* C11: after a move of a pawn has been applied, that pawn's double-step   *)
(* flag is true exactly when the move was a normal move over two ranks.    *)
C11_DobleSiiDosFilas ==
    (Aplicado /\ ult.id[2] = "P" /\ ult.id \in DOMAIN piezas) =>
        (piezas[ult.id].doble <=>
            /\ ult.mov.tipo = NORMAL
            /\ Abs(UltHasta[1] - UltDesde[1]) = 2)

\* e2-e4 from the standard starting board
C11_Testigo ==
    /\ esc = "inicial"
    /\ Aplicado
    /\ tabAntes = TableroInicial
    /\ ult.mov = MovimientoAjedrez(<<"e", 2>>, <<"e", 4>>, NORMAL, Ninguna)
    /\ ult.id = Id("B", "P", 5)
    /\ piezas[Id("B", "P", 5)].doble

(* C12: for a pawn one step from the back rank, each qualifying            *)
(* destination (the square straight ahead when empty, a forward diagonal   *)
(* holding an enemy piece) gets exactly four candidates, one promotion to  *)
(* each of C, A, T and Q, and every other destination gets none.           *)
C12_PromocionCuatroCandidatos ==
    \A peon \in {id \in EnJuego : id[2] = "P"} :
    \A pos \in {Posicion(tablero, peon)} :
    \A movs \in {Candidatos(peon)} :
        LET direccion == IF peon[1] = "B" THEN -1 ELSE 1
            fila_promocion == IF peon[1] = "B" THEN 0 ELSE 7
            Califica(d) ==
                /\ d[1] = fila_promocion
                /\ \/ d[2] = pos[2] /\ tablero[d] = VACIO
                   \/ /\ Abs(d[2] - pos[2]) = 1
                      /\ tablero[d] # VACIO
                      /\ tablero[d][1] # peon[1]
            Hacia(d) == {i \in 1..Len(movs) :
                            movs[i].hasta = posicion_a_notacion(d[1], d[2])}
        IN  pos[1] + direccion = fila_promocion =>
                \A d \in Posiciones :
                    IF Califica(d)
                    THEN /\ Cardinality(Hacia(d)) = 4
                         /\ \A i \in Hacia(d) : movs[i].tipo = PROMOCION
                         /\ {movs[i].info : i \in Hacia(d)} =
                                {"C", "A", "T", "Q"}
                    ELSE Hacia(d) = {}

(* C13: a mover call with promotion target P or R does not return True and *)
(* leaves the board, the registry and the visited set unchanged; no pawn   *)
(* and no king is ever created by promotion.                               *)
C13_PromocionPeonReyRechazada ==
    /\ (Movido /\ ult.promocion_pieza \in {"P", "R"}) =>
            (ult.ret # "True" /\ MoverSinEfecto)
    /\ \A id \in DOMAIN piezas \cup EnTablero(tablero) :
            /\ id[2] = "P" => id[3] <= 8
            /\ id[2] = "R" => id[3] = 1

\* the white pawn stands on e7 and "e7-e8" is asked with target R
C13_Testigo ==
    /\ Movido
    /\ ult.cadena = <<<<"e", 7>>, <<"e", 8>>>>
    /\ ult.promocion_pieza = "R"
    /\ agente.color = 1
    /\ tablero[notacion_a_posicion(<<"e", 7>>)] = Id("B", "P", 5)
    /\ ult.ret = "None"

AvancesDesdeFilaInicial(exigir_no_movida) ==
    \A peon \in {id \in EnJuego : id[2] = "P"} :
    \A pos \in {Posicion(tablero, peon)} :
        pos[1] = (IF peon[1] = "B" THEN 6 ELSE 1) =>
            \A movs \in {Candidatos(peon)} :
                LET direccion == IF peon[1] = "B" THEN -1 ELSE 1
                    uno == <<pos[1] + direccion, pos[2]>>
                    dos == <<pos[1] + 2 * direccion, pos[2]>>
                    Avanza(d) ==
                        \E i \in 1..Len(movs) :
                            /\ movs[i].tipo = NORMAL
                            /\ movs[i].desde =
                                    posicion_a_notacion(pos[1], pos[2])
                            /\ movs[i].hasta = posicion_a_notacion(d[1], d[2])
                IN  /\ ( /\ tablero[uno] = VACIO
                         /\ tablero[dos] = VACIO
                         /\ exigir_no_movida => ~piezas[peon].movida )
                        => (Avanza(uno) /\ Avanza(dos))
                    /\ tablero[uno] # VACIO =>
                            \A i \in 1..Len(movs) :
                                notacion_a_posicion(movs[i].hasta)[2] # pos[2]

C16_IdaYVuelta ==
    /\ ( /\ ult.op = "notacion_a_posicion"
         /\ ult.clase_entrada = "posicion" )
            => (ult.clase = "posicion" /\ ult.valor = ult.entrada)
    /\ ( /\ ult.op = "posicion_a_notacion"
         /\ ult.clase_entrada = "notacion"
         /\ ult.entrada \in {"a", "b", "c", "d", "e", "f", "g", "h"} \X (1..8) )
            => ult.valor = ult.entrada

\* a8 has gone to the square (0, 0) and back
C16_Testigo ==
    /\ ult.op = "posicion_a_notacion"
    /\ nmov = 2
    /\ ult.entrada = <<"a", 8>>
    /\ ult.valor = <<"a", 8>>

(* C17: notacion_a_posicion fails for every notation whose file letter is  *)
(* outside a-h or whose rank digit is outside 1-8, and never returns a     *)
(* square outside the board.                                               *)
C17_NotacionInvalidaFalla ==
    ult.op = "notacion_a_posicion" =>
        /\ ( /\ nmov = 1
             /\ \/ ult.entrada[1] \notin {"a", "b", "c", "d", "e", "f", "g", "h"}
                \/ ult.entrada[2] \notin 1..8 )
                => ult.clase = "ValueError"
        /\ ult.clase = "posicion" => ult.valor \in Posiciones

\* the origin square of the last mover call: the square named first in the
\* string, the home square of the agent's king for a castle string
OrigenMover ==
    IF ult.cadena \in {<<"O-O">>, <<"O-O-O">>}
    THEN <<"e", IF agente.color = 1 THEN 1 ELSE 8>>
    ELSE ult.cadena[1]

\* that square was empty or held a piece of the other colour
OrigenInvalido ==
    \A id \in {tabAntes[notacion_a_posicion(OrigenMover)]} :
        \/ id = VACIO
        \/ id[1] # (IF agente.color = 1 THEN "B" ELSE "N")

(* C18: every mover call (with an admitted promotion target) whose origin  *)
(* square is empty or holds a piece of the opponent returns False and      *)
(* leaves the board, the registry and the visited set unchanged.           *)
C18_OrigenInvalidoDevuelveFalse ==
    (Movido /\ ~promocion_prohibida(ult.promocion_pieza) /\ OrigenInvalido)
        => (ult.ret = "False" /\ MoverSinEfecto)

\* the applied move was no castle and its destination held another piece:
\* that piece is gone from the registry and from the board
CapturaEliminaOcupante ==
    (Aplicado /\ ult.mov.tipo # ENROQUE) =>
        \A ocupante \in {tabAntes[UltHasta]} \ {VACIO, ult.id} :
            /\ ocupante \notin DOMAIN piezas
            /\ ocupante \notin EnTablero(tablero)

(* C19 as claimed: a move other than a castle whose destination holds      *)
(* another piece removes that piece from the registry and from the board,  *)
(* and a castle move never deletes a registry entry.                       *)
C19_CapturaYEnroqueSinBorrar ==
    /\ CapturaEliminaOcupante
    /\ AplicadoTipo({ENROQUE}) => DOMAIN piezasAntes \subseteq DOMAIN piezas

(* C19 amended: a move other than a castle whose destination holds another *)
(* piece removes that piece from the registry and from the board, and a    *)
(* castle move deletes no registry entry of a piece that is on the board,  *)
(* the occupant of its destination included: it deletes exactly the        *)
(* entries whose id is not on the board.                                   *)
C19_EnroqueSoloBorraAusentes ==
    /\ CapturaEliminaOcupante
    /\ AplicadoTipo({ENROQUE}) =>
            /\ DOMAIN piezas = DOMAIN piezasAntes \cap EnTablero(tabAntes)
            /\ \A id \in DOMAIN piezas : piezas[id] = piezasAntes[id]

\* e1-g1 applied as a castle on the standard board, the knight on g1
C19_Testigo ==
    /\ AplicadoTipo({ENROQUE})
    /\ tabAntes[UltHasta] = Id("B", "C", 2)
    /\ tablero[UltHasta] = Id("B", "C", 2)
    /\ Id("B", "C", 2) \in DOMAIN piezas

C21_NumeroDePromocion ==
    AplicadoTipo({PROMOCION}) =>
        \A nuevo \in {tablero[UltHasta]} :
        \A previos \in {{id \in (DOMAIN piezasAntes) \ {tabAntes[UltHasta]} :
                            id[1] = ult.id[1] /\ id[2] = ult.mov.info}} :
            /\ nuevo[1] = ult.id[1]
            /\ nuevo[2] = ult.mov.info
            /\ \A id \in previos : id[3] < nuevo[3]
            /\ IF previos = {} THEN nuevo[3] = 1
               ELSE \E id \in previos : id[3] + 1 = nuevo[3]

\* two rooks of the colour were registered but not on the board: the
\* promoted rook is number 3
C21_Testigo ==
    /\ AplicadoTipo({PROMOCION})
    /\ ult.mov.info = "T"
    /\ Id("B", "T", 2) \in DOMAIN piezasAntes
    /\ Id("B", "T", 2) \notin EnTablero(tabAntes)
    /\ tablero[UltHasta] = Id("B", "T", 3)

(* C22: sincronizar_con_tablero deletes exactly the entries whose id is    *)
(* not on the board: the keys afterwards are the keys before that occur on *)
(* the board, nothing is added and every surviving record keeps its flags. *)
C22_SincronizarBorraAusentes ==
    Aplicado =>
        /\ DOMAIN piezas = (DOMAIN ult.pz_sin_sync) \cap EnTablero(tablero)
        /\ \A id \in DOMAIN piezas : piezas[id] = ult.pz_sin_sync[id]

\* the reconcile after the first move on a test board: entries deleted,
\* the moved piece's entry kept with its flag
C22_Testigo ==
    /\ Aplicado
    /\ DOMAIN piezas # DOMAIN ult.pz_sin_sync
    /\ ult.id \in DOMAIN piezas
    /\ piezas[ult.id].movida

(* C23: registrar_pieza changes nothing when the id is registered (the     *)
(* record keeps its flags); otherwise it inserts a record with both flags  *)
(* false when the kind letter is known, and nothing when it is not.        *)
C23_RegistrarSoloSiFalta ==
    ult.op = "registrar" =>
        IF ult.id \in DOMAIN piezasAntes \/ ult.id[2] \notin {"P", "T", "C", "A", "Q", "R"}
        THEN piezas = piezasAntes
        ELSE /\ DOMAIN piezas = DOMAIN piezasAntes \cup {ult.id}
             /\ piezas[ult.id] = [movida |-> FALSE, doble |-> FALSE]
             /\ \A id \in DOMAIN piezasAntes : piezas[id] = piezasAntes[id]

\* the e-pawn made its double step and is registered again: its record
\* still has both flags set
C23_Testigo ==
    /\ ult.op = "registrar"
    /\ ult.id = Id("B", "P", 5)
    /\ Id("B", "P", 5) \in DOMAIN piezasAntes
    /\ piezasAntes[Id("B", "P", 5)] = [movida |-> TRUE, doble |-> TRUE]
    /\ piezas[Id("B", "P", 5)] = [movida |-> TRUE, doble |-> TRUE]

(* C24: an applied move changes the flags of the moving piece only (and,   *)
(* for a castle, of the castling rook): every other piece that is still    *)
(* registered afterwards has the movida and double-step values it had.     *)
C24_BanderasAjenasIntactas ==
    Aplicado =>
        \A id \in (DOMAIN piezas \cap DOMAIN piezasAntes)
                    \ {ult.id, tabAntes[UltHasta]} :
            \/ piezas[id] = piezasAntes[id]
            \/ /\ ult.mov.tipo = ENROQUE
               /\ id[1] = ult.id[1]
               /\ id[2] = "T"

\* a move applied while another pawn carries the double-step flag, which
\* it keeps
C24_Testigo ==
    /\ Aplicado
    /\ ult.mov.tipo = NORMAL
    /\ \E id \in (DOMAIN piezas \cap DOMAIN piezasAntes) \ {ult.id} :
            /\ piezasAntes[id].doble
            /\ piezas[id].doble

RegistroPropio == IF ult.color = "blancas" THEN piezas ELSE agente2.piezas
RegistroAjeno == IF ult.color = "blancas" THEN agente2.piezas ELSE piezas

\* the last step was a successful mover call of one of the two agents
MovidoConExito == ult.op = "mover" /\ ult.ret = "True"

(* C26: in the two-agent driver a successful mover call of one agent
   synchronises only by deleting: the ids its registry holds afterwards are
   ids it held before or the id its own promotion created, so an id the other
   agent put on the board stays unknown to it; and the call leaves the other
   agent's registry, flags included, as it was *)
C26_AsignarEstadoNoRegistra ==
    MovidoConExito =>
        /\ \A id \in DOMAIN RegistroPropio :
               \/ id \in DOMAIN piezasAntes
               \/ /\ ult.mov.tipo = PROMOCION
                  /\ tablero[notacion_a_posicion(ult.mov.hasta)] = id
        /\ RegistroAjeno = ult.otro_antes

\* right after a successful black mover call the board holds BQ2, promoted
\* by white, which the black registry lacks, and the white pawn flag set in
\* the white registry is not set in the black one
C26_Testigo ==
    /\ MovidoConExito
    /\ ult.color = "negras"
    /\ Id("B", "Q", 2) \in EnTablero(tablero)
    /\ Id("B", "Q", 2) \notin DOMAIN agente2.piezas
    /\ DOMAIN agente2.piezas # EnTablero(tablero)
    /\ \E id \in (DOMAIN piezas) \cap (DOMAIN agente2.piezas) :
           piezas[id].movida /\ ~agente2.piezas[id].movida

(* C27: a query leaves the registry as it was, whatever the id asked for
   (on the board or not, registered or not), and the list returned for an
   id that is not on the board is empty *)
C27_ConsultaSoloLee ==
    ult.op = "consultar" =>
        /\ piezas = piezasAntes
        /\ (ult.id \notin EnTablero(tablero) => ult.movs = <<>>)

\* the cells of tab that hold a piece
Ocupadas(tab) == {p \in Posiciones : tab[p] # VACIO}

(* C28: from the standard board with one registry every PieceId stands on at
   most one cell, and the id a Promotion puts on the board was on no cell of
   the board the move was applied to *)
C28_IdsUnicos ==
    /\ Cardinality(Ocupadas(tablero)) = Cardinality(EnTablero(tablero))
    /\ (Movido /\ ult.ret = "True" /\ ult.mov.tipo = PROMOCION =>
            tablero[notacion_a_posicion(ult.mov.hasta)]
                \notin EnTablero(tabAntes))

\* the white pawn promoted on e8 and the new queen is BQ2, next to BQ1
C28_Testigo ==
    /\ Movido /\ ult.ret = "True" /\ ult.mov.tipo = PROMOCION
    /\ tablero[notacion_a_posicion(<<"e", 8>>)] = Id("B", "Q", 2)
    /\ Id("B", "Q", 1) \in EnTablero(tablero)

\* the registry holds id and its record says the piece has not moved
RegistradaSinMover(id) == id \in DOMAIN piezas /\ ~piezas[id].movida

(* C29: once the record of an id has said that the piece has moved, no
   later state holds a record under that id that says it has not *)
C29_MovidaParaSiempre ==
    \A id \in movidas : ~RegistradaSinMover(id)

\* the square a king or a rook T1/T2 of the standard board starts on
CasillaOriginal(id) ==
    <<IF id[1] = "B" THEN 7 ELSE 0,
      IF id[2] = "R" THEN 4 ELSE IF id[3] = 1 THEN 0 ELSE 7>>

\* the kings and the rooks T1, T2 of both colours
ReyesYTorres ==
    {Id(c, "R", 1) : c \in {"B", "N"}}
        \cup {Id(c, "T", n) : c \in {"B", "N"}, n \in {1, 2}}

(* C30: from the standard board with one registry a king, or a rook T1/T2,
   that is on the board with a record that says it has not moved stands on
   its original square, and every Castle candidate of a king starts on the
   king's original square *)
C30_SinMoverEnSuCasilla ==
    /\ \A id \in ReyesYTorres \cap EnJuego :
           ~piezas[id].movida => tablero[CasillaOriginal(id)] = id
    /\ \A c \in {"B", "N"} :
       \A movs \in {Candidatos(Id(c, "R", 1))} : \A i \in 1..Len(movs) :
           movs[i].tipo = ENROQUE =>
               notacion_a_posicion(movs[i].desde)
                   = CasillaOriginal(Id(c, "R", 1))

\* the squares, in notation, the sweep obtener_hijos gives for the piece id
DestinosDelBarrido(id) ==
    LET hijos == obtener_hijos(id[2], id[1], piezas[id].movida,
                               Posicion(tablero, id), tablero)
    IN  {hijos[i][2] : i \in 1..Len(hijos)}

\* the squares, in notation, for which puede_mover says yes for the piece id
DestinosLegales(id) ==
    LET p == Posicion(tablero, id)
        desde == posicion_a_notacion(p[1], p[2])
    IN  {hasta \in {posicion_a_notacion(q[1], q[2]) : q \in Posiciones} :
            puede_mover(id[2], id[1], desde, hasta, tablero)}

(* C31: for every piece on the board the destinations of the sweep
   obtener_hijos are exactly the squares for which puede_mover is true *)
C31_BarridoIgualPredicado ==
    \A id \in EnJuego : DestinosDelBarrido(id) = DestinosLegales(id)

(* C32: after mover returns True for a move string that is neither a castle
   nor a promotion, the piece that stood on the origin square stands on the
   destination square and is still registered *)
C32_PiezaLlegaAlDestino ==
    Movido /\ ult.ret = "True" /\ ult.mov.tipo = NORMAL =>
        \E id \in {tabAntes[notacion_a_posicion(ult.mov.desde)]} :
            /\ tablero[notacion_a_posicion(ult.mov.hasta)] = id
            /\ id \in DOMAIN piezas

=============================================================================
